---- MODULE Spec2Model ----
(***************************************************************************)
(* Model of pg::subject, pg::observer_owner, pg::observer_handle and       *)
(* pg::subject_blocker (observer.h).                                       *)
(*                                                                         *)
(* Objects are identified by small integers; a handle's identity stands    *)
(* for its address.  A subject's m_observers is modelled by its elements   *)
(* begin()..end(); the raw storage behind them is kept only where it can   *)
(* be observed, in the notify passes that hold iterators into it, so that  *)
(* an iterator that outlives an erase reads what the storage really holds. *)
(* Undefined behaviour is recorded in "ub"; the step that raises it either *)
(* goes on over the memory as the code left it or ends the program         *)
(* ("crashed"), and the model follows the program no further.              *)
(***************************************************************************)
EXTENDS Integers, Sequences, FiniteSets, TLC

\* ---- bounds -------------------------------------------------------------
NumOwners == 2
NumSubjects == 2
MaxHandles == 3
MaxBlockers == 2
MaxDepth == 1
NumArgs == 2

Owners == 1..NumOwners
Subjects == 1..NumSubjects
Handles == 1..MaxHandles
Blockers == 1..MaxBlockers

\* every subject is a subject< A1, ..., A_NumArgs >; an event is the tuple of
\* its arguments
Values == {0, 1}
Events == [1..NumArgs -> Values]
NoEvent == [i \in 1..NumArgs |-> 0]

VARIABLES
    ownerAlive,           \* [Owners -> BOOLEAN]   the observer_owner object exists
    subjectAlive,         \* [Subjects -> BOOLEAN] the subject object exists
    owner_m_observers,    \* [Owners -> SUBSET Handles]   observer_owner::m_observers
    subject_m_observers,  \* [Subjects -> Seq(Handles)]   subject::m_observers
    hnd,                  \* [Handles -> handle record]   observer_handle objects
    blk,                  \* [Blockers -> blocker record] subject_blocker objects
    stack,                \* notify passes in progress, innermost last
    ub,                   \* kinds of undefined behaviour executed
    crashed               \* the program was ended by undefined behaviour

vars == <<ownerAlive, subjectAlive, owner_m_observers, subject_m_observers,
          hnd, blk, stack, ub, crashed>>

Range(q) == {q[i] : i \in 1..Len(q)}

\* ---- pg_detail::get_first / get_first_n ----------------------------------
\* a get_first that collects from the back of the tuple
RECURSIVE get_last(_, _)
get_last(N, t) ==
    IF N = -1 THEN <<>>
    ELSE get_last(N - 1, t) \o <<t[Len(t) - N]>>

\* get_first< N >( t ): the tuple of std::get< 0 >( t ) .. std::get< N >( t ),
\* built from the front; the empty tuple for N = -1
RECURSIVE get_first(_, _)
get_first(N, t) ==
    IF N = -1 THEN <<>>
    ELSE get_first(N - 1, t) \o <<t[N + 1]>>

\* get_first_n< N >( args... )
get_first_n(N, args) == get_first(N - 1, args)

\* ---- std::vector< abstract_observer * > ---------------------------------
\* an erase that fills the hole with the last element
erase_swap_last(q, i) ==
    IF i = Len(q) THEN SubSeq(q, 1, Len(q) - 1)
    ELSE [SubSeq(q, 1, Len(q) - 1) EXCEPT ![i] = q[Len(q)]]

\* vector::erase(position i) on the elements
erase(q, i) == SubSeq(q, 1, i - 1) \o SubSeq(q, i + 1, Len(q))

\* vector::erase(position i) on the storage of a vector of "size" elements:
\* the elements behind i move one slot down, the slot of the old last
\* element is left as it was
raw_erase(raw, i, size) ==
    [j \in 1..Len(raw) |-> IF j >= i /\ j < size THEN raw[j + 1] ELSE raw[j]]

\* vector::push_back without reallocation on the storage: the slot behind
\* the last element is written
raw_push_back(raw, h, size) ==
    IF size < Len(raw) THEN [raw EXCEPT ![size + 1] = h] ELSE Append(raw, h)

\* ---- observer_handle -----------------------------------------------------
\* m_owner and m_subject are the back-references; "arity" is the number of
\* parameters of the connected function, "s2" the subject a relay's lambda
\* refers to (0: not a relay).  A destroyed handle's fields are no longer
\* part of the program's state.
NoHandle == [state |-> "unborn", m_owner |-> 0, m_subject |-> 0,
             arity |-> 0, s2 |-> 0]
FreedHandle == [state |-> "freed", m_owner |-> 0, m_subject |-> 0,
                arity |-> 0, s2 |-> 0]

Born == {h \in Handles : hnd[h].state # "unborn"}
Live == {h \in Handles : hnd[h].state = "live"}
Freed == {h \in Handles : hnd[h].state = "freed"}

\* ---- notify passes in progress -------------------------------------------
\* A frame is one running subject::notify.  "raw" is the storage the
\* range-for iterators point into, "pos" the slot the iterator stands on
\* (the callback of the handle read there is running), "end" the cached
\* end(), "loc" the vector object that holds that storage now (0: the
\* subject's m_observers, b: blocker b's m_observers, -1: none, the storage
\* was released), "fired" the handles invoked so far and "dirty" whether a
\* callback of the pass changed any registration.  "args" is the event of
\* the pass, "got" the arguments each invoked function was called with, and
\* "inner" whether the running callback, a relay's lambda, has made its call.
Received(h, args) == get_first_n(hnd[h].arity, args)

Frame(s, q, args) ==
    [s |-> s, pos |-> 1, end |-> Len(q), loc |-> 0, raw |-> q,
     fired |-> <<q[1]>>, dirty |-> FALSE,
     args |-> args, got |-> <<Received(q[1], args)>>, inner |-> FALSE]

Touch(stk) == [i \in DOMAIN stk |-> [stk[i] EXCEPT !.dirty = TRUE]]

Aliases(f, s, loc) == f.s = s /\ f.loc = loc

\* the storage held by vector object "loc" of subject s is released:
\* iterators into it dangle
Dangle(stk, s, loc) ==
    [i \in DOMAIN stk |->
        IF Aliases(stk[i], s, loc) THEN [stk[i] EXCEPT !.loc = -1]
        ELSE stk[i]]

\* std::swap of subject s's vector with blocker b's exchanges their storage:
\* iterators stay valid and point into the other vector object
Swapped(stk, s, b) ==
    [i \in DOMAIN stk |->
        IF Aliases(stk[i], s, 0) THEN [stk[i] EXCEPT !.loc = b]
        ELSE IF Aliases(stk[i], s, b) THEN [stk[i] EXCEPT !.loc = 0]
        ELSE stk[i]]

\* what an erase / a push_back on subject s's vector does to the storage
\* seen by the running passes
ErasedUnder(stk, s, i, size) ==
    [k \in DOMAIN stk |->
        IF Aliases(stk[k], s, 0)
        THEN [stk[k] EXCEPT !.raw = raw_erase(@, i, size)]
        ELSE stk[k]]

PushedUnder(stk, s, h, size) ==
    [k \in DOMAIN stk |->
        IF Aliases(stk[k], s, 0)
        THEN [stk[k] EXCEPT !.raw = raw_push_back(@, h, size)]
        ELSE stk[k]]

\* size() of the vector object that holds the frame's storage
FrameSize(f) ==
    IF f.loc = 0 THEN Len(subject_m_observers[f.s])
    ELSE IF f.loc = -1 THEN 0
    ELSE Len(blk[f.loc].m_observers)

\* ---- subject< A... > -----------------------------------------------------
\* The subjects' vectors and the passes iterating them change together:
\* M is [obs |-> the m_observers of every subject, stk |-> the passes].

\* a find that hands erase the reverse iterator's base(), the position
\* behind the match
FindLastBase(q, h) ==
    LET hits == {i \in 1..Len(q) : q[i] = h}
    IN  IF hits = {} THEN 0
        ELSE IF Len(q) \in hits THEN Len(q)
        ELSE 1 + CHOOSE i \in hits : \A j \in hits : j <= i

\* a find whose result is not compared with rend(): without a match the
\* erase takes the last element
FindLastUnchecked(q, h) ==
    LET hits == {i \in 1..Len(q) : q[i] = h}
    IN  IF hits = {} THEN Len(q)
        ELSE CHOOSE i \in hits : \A j \in hits : j <= i

\* the reverse find_if of subject::remove_observer: the last match, 0 if none
FindLast(q, h) ==
    LET hits == {i \in 1..Len(q) : q[i] = h}
    IN  IF hits = {} THEN 0 ELSE CHOOSE i \in hits : \A j \in hits : j <= i

\* subject::remove_observer
subject_remove_observer(M, s, h) ==
    LET q == M.obs[s]
        i == FindLast(q, h)
    IN  IF i # 0
        THEN [obs |-> [M.obs EXCEPT ![s] = erase(q, i)],
              stk |-> ErasedUnder(M.stk, s, i, Len(q))]
        ELSE M

\* an add_observer that inserts at the front
add_observer_front(M, s, h) ==
    [obs |-> [M.obs EXCEPT ![s] = <<h>> \o @], stk |-> M.stk]

\* subject::add_observer, push_back in place
add_observer(M, s, h) ==
    [obs |-> [M.obs EXCEPT ![s] = Append(@, h)],
     stk |-> PushedUnder(M.stk, s, h, Len(M.obs[s]))]

\* subject::add_observer, push_back that reallocates: the elements move to
\* new storage and the old storage is released
add_observer_realloc(M, s, h) ==
    [obs |-> [M.obs EXCEPT ![s] = Append(@, h)],
     stk |-> Dangle(M.stk, s, 0)]

\* a spare slot is known to exist behind the last element when a running
\* pass still sees one; otherwise the capacity is the implementation's
SpareSlot(s) ==
    \E k \in DOMAIN stack :
        Aliases(stack[k], s, 0)
        /\ Len(stack[k].raw) > Len(subject_m_observers[s])

\* ---- observer_owner -------------------------------------------------------
\* observer_owner::remove_observer: find and erase; erasing the unique_ptr
\* destroys the handle
owner_remove_observer(set, h) == set \ {h}

\* the handles after the owners' sets became "sets": a handle is destroyed
\* with the unique_ptr that its set entry is
Released(sets) ==
    [h \in Handles |->
        IF hnd[h].state = "live" /\ h \notin UNION {sets[o] : o \in Owners}
        THEN FreedHandle ELSE hnd[h]]

\* the orders in which a std::set keyed by address can hold the handles
RECURSIVE Orders(_)
Orders(S) ==
    IF S = {} THEN {<<>>}
    ELSE UNION {{<<x>> \o t : t \in Orders(S \ {x})} : x \in S}

\* ---- subject_blocker -----------------------------------------------------
\* a copy in place of the swap
std_copy(mine, theirs) == [mine |-> theirs, theirs |-> theirs]

\* std::swap( m_observers, m_subject.m_observers ): the blocker's vector
\* first, the subject's second
std_swap(mine, theirs) == [mine |-> theirs, theirs |-> mine]

\* the blockers alive on subject s; each holds a reference to s and swaps
\* with it again in its destructor, so s has to outlive them
BlockersOn(s) == {b \in Blockers : blk[b].state = "alive"
                                   /\ blk[b].m_subject = s}

\* Blocker objects are interchangeable: a new one takes the first unused
\* identity.  The innermost blocker is the one constructed last when blockers
\* are scoped objects.
FreshBlocker(b) ==
    /\ blk[b].state = "idle"
    /\ \A c \in Blockers : blk[c].state = "idle" => b <= c

InnermostBlocker(b) ==
    /\ blk[b].state = "alive"
    /\ \A c \in Blockers : blk[c].state = "alive" => c <= b

\* "snap" remembers the dispatch sequence the subject had at construction
Idle == [state |-> "idle", m_subject |-> 0, m_observers |-> <<>>,
         snap |-> <<>>]

\* ---- initial state -------------------------------------------------------
Init ==
    /\ ownerAlive = [o \in Owners |-> TRUE]
    /\ subjectAlive = [s \in Subjects |-> TRUE]
    /\ owner_m_observers = [o \in Owners |-> {}]
    /\ subject_m_observers = [s \in Subjects |-> <<>>]
    /\ hnd = [h \in Handles |-> NoHandle]
    /\ blk = [b \in Blockers |-> Idle]
    /\ stack = <<>>
    /\ ub = {}
    /\ crashed = FALSE

\* Nothing the program does after undefined behaviour is defined: the step
\* that raises it is modelled with both of its outcomes (it goes on over the
\* memory as the code left it, or it ends the program), and no step follows.
Running == ub = {} /\ ~crashed

Crash(F) ==
    /\ F # {}
    /\ crashed' = TRUE
    /\ UNCHANGED <<ownerAlive, subjectAlive, owner_m_observers,
                   subject_m_observers, hnd, blk, stack>>

Mem == [obs |-> subject_m_observers, stk |-> stack]

\* ---- observer_owner::connect ---------------------------------------------
\* The new handle gets the next identity.  add_observer comes first, then
\* the insert into the owner's set.
\* n is the arity of the connected function (static_assert: n <= NumArgs),
\* t the subject a relay forwards to (0 for a function that is no relay).
Connect(o, s, n, t) ==
    LET h == Cardinality(Born) + 1
    IN  /\ Running
        /\ ownerAlive[o]
        /\ subjectAlive[s]
        /\ h <= MaxHandles
        /\ n <= NumArgs
        /\ t # 0 => subjectAlive[t]
        /\ hnd' = [hnd EXCEPT ![h] =
                     [state |-> "live", m_owner |-> o, m_subject |-> s,
                      arity |-> n, s2 |-> t]]
        /\ \E M \in {add_observer(Mem, s, h)}
                    \cup (IF SpareSlot(s) THEN {}
                          ELSE {add_observer_realloc(Mem, s, h)}) :
              /\ subject_m_observers' = M.obs
              /\ stack' = Touch(M.stk)
        /\ owner_m_observers' =
               [owner_m_observers EXCEPT ![o] = @ \cup {h}]
        /\ UNCHANGED <<ownerAlive, subjectAlive, blk, ub, crashed>>

\* ---- observer_owner::disconnect ------------------------------------------
\* Called on the owner that holds h.  remove_from_subject goes to the
\* handle's subject, remove_observer erases (and destroys) the handle.
DisconnectUB(h) ==
    IF subjectAlive[hnd[h].m_subject] THEN {} ELSE {"subject_uaf"}

Disconnect(o, h) ==
    LET s == hnd[h].m_subject
        M == IF subjectAlive[s] THEN subject_remove_observer(Mem, s, h)
             ELSE Mem
    IN  /\ Running
        /\ ownerAlive[o]
        /\ h \in owner_m_observers[o]
        /\ ub' = ub \cup DisconnectUB(h)
        /\ \/ /\ subject_m_observers' = M.obs
              /\ owner_m_observers' =
                     [owner_m_observers EXCEPT ![o] =
                         owner_remove_observer(@, h)]
              /\ hnd' = Released(owner_m_observers')
              /\ stack' = Touch(M.stk)
              /\ UNCHANGED <<ownerAlive, subjectAlive, blk, crashed>>
           \/ Crash(DisconnectUB(h))

\* disconnect called on an owner o that does not hold h: remove_from_subject
\* is routed through the handle, but remove_observer is this owner's, whose
\* find returns end() and whose erase( end() ) is undefined.  If the program
\* goes on, h is out of its subject's vector and still held by its own owner.
DisconnectForeign(o, h) ==
    LET s == hnd[h].m_subject
        M == IF subjectAlive[s] THEN subject_remove_observer(Mem, s, h)
             ELSE Mem
    IN  /\ Running
        /\ ownerAlive[o]
        /\ hnd[h].state = "live"
        /\ h \notin owner_m_observers[o]
        /\ ub' = ub \cup DisconnectUB(h) \cup {"erase_end"}
        /\ \/ /\ subject_m_observers' = M.obs
              /\ stack' = Touch(M.stk)
              /\ UNCHANGED <<ownerAlive, subjectAlive, owner_m_observers,
                             hnd, blk, crashed>>
           \/ Crash({"erase_end"})

\* ---- observer_owner::~observer_owner --------------------------------------
\* remove_from_subject for every owned handle, in the set's order; then the
\* set is destroyed and with it every handle it holds.
RECURSIVE RemoveAll(_, _)
RemoveAll(M, q) ==
    IF q = <<>> THEN M
    ELSE LET h == Head(q)
             s == hnd[h].m_subject
         IN  RemoveAll(IF subjectAlive[s]
                       THEN subject_remove_observer(M, s, h) ELSE M,
                       Tail(q))

DestroyOwnerUB(o) ==
    IF \E h \in owner_m_observers[o] : ~subjectAlive[hnd[h].m_subject]
    THEN {"subject_uaf"} ELSE {}

DestroyOwner(o) ==
    /\ Running
    /\ ownerAlive[o]
    /\ ub' = ub \cup DestroyOwnerUB(o)
    /\ \/ /\ \E q \in Orders(owner_m_observers[o]) :
                 LET M == RemoveAll(Mem, q)
                 IN  /\ subject_m_observers' = M.obs
                     /\ stack' = Touch(M.stk)
          /\ owner_m_observers' = [owner_m_observers EXCEPT ![o] = {}]
          /\ hnd' = Released(owner_m_observers')
          /\ ownerAlive' = [ownerAlive EXCEPT ![o] = FALSE]
          /\ UNCHANGED <<subjectAlive, blk, crashed>>
       \/ Crash(DestroyOwnerUB(o))

\* ---- subject::~subject ---------------------------------------------------
\* remove_from_owner for every element of m_observers, in order: the owner
\* erases the handle from its set, which destroys it.  An element that was
\* destroyed before is a dangling pointer: the call reads the freed handle's
\* m_owner and erases from that set a handle it does not hold.
\* a ~subject that forgets to tell the owners
ReleaseNone(sets, q) == sets

RECURSIVE ReleaseAll(_, _)
ReleaseAll(sets, q) ==
    IF q = <<>> THEN sets
    ELSE LET h == Head(q)
         IN  ReleaseAll(IF hnd[h].state = "live"
                        THEN [sets EXCEPT ![hnd[h].m_owner] =
                                 owner_remove_observer(@, h)]
                        ELSE sets,
                        Tail(q))

DestroySubjectUB(s) ==
    IF \E h \in Range(subject_m_observers[s]) : hnd[h].state # "live"
    THEN {"handle_uaf", "erase_absent"} ELSE {}

DestroySubject(s) ==
    LET q == subject_m_observers[s]
    IN  /\ Running
        /\ subjectAlive[s]
        /\ BlockersOn(s) = {}
        /\ ub' = ub \cup DestroySubjectUB(s)
        /\ \/ /\ owner_m_observers' = ReleaseAll(owner_m_observers, q)
              /\ hnd' = Released(owner_m_observers')
              /\ subject_m_observers' =
                     [subject_m_observers EXCEPT ![s] = <<>>]
              /\ subjectAlive' = [subjectAlive EXCEPT ![s] = FALSE]
              /\ stack' = Touch(Dangle(stack, s, 0))
              /\ UNCHANGED <<ownerAlive, blk, crashed>>
           \/ Crash(DestroySubjectUB(s))

\* ---- subject_blocker -----------------------------------------------------
\* a constructor that saves a copy and leaves the subject's vector in place
BlockerCtorCopying(b, s) ==
    /\ Running
    /\ FreshBlocker(b)
    /\ subjectAlive[s]
    /\ blk' = [blk EXCEPT ![b] =
                  [state |-> "alive", m_subject |-> s,
                   m_observers |-> subject_m_observers[s],
                   snap |-> subject_m_observers[s]]]
    /\ stack' = Touch(stack)
    /\ UNCHANGED <<ownerAlive, subjectAlive, owner_m_observers,
                   subject_m_observers, hnd, ub, crashed>>

\* constructor: std::swap( m_observers, m_subject.m_observers ) with the
\* blocker's default-constructed (empty) vector
BlockerCtor(b, s) ==
    /\ Running
    /\ FreshBlocker(b)
    /\ subjectAlive[s]
    /\ LET sw == std_swap(blk[b].m_observers, subject_m_observers[s])
       IN  /\ blk' = [blk EXCEPT ![b] =
                         [state |-> "alive", m_subject |-> s,
                          m_observers |-> sw.mine,
                          snap |-> subject_m_observers[s]]]
           /\ subject_m_observers' =
                  [subject_m_observers EXCEPT ![s] = sw.theirs]
    /\ stack' = Touch(Swapped(stack, s, b))
    /\ UNCHANGED <<ownerAlive, subjectAlive, owner_m_observers, hnd, ub,
                   crashed>>

\* a destructor that also disconnects what was connected during the block
BlockerDtorDisconnecting(b) ==
    LET s == blk[b].m_subject
        sw == std_swap(blk[b].m_observers, subject_m_observers[s])
    IN  /\ Running
        /\ blk[b].state = "alive"
        /\ subject_m_observers' =
               [subject_m_observers EXCEPT ![s] = sw.theirs]
        /\ owner_m_observers' =
               [o \in Owners |-> owner_m_observers[o] \ Range(sw.mine)]
        /\ hnd' = Released(owner_m_observers')
        /\ blk' = [blk EXCEPT ![b] = Idle]
        /\ stack' = Touch(Dangle(Swapped(stack, s, b), s, b))
        /\ UNCHANGED <<ownerAlive, subjectAlive, ub, crashed>>

\* destructor: the same swap, then the blocker's vector (now holding what
\* the subject held during the block) is destroyed
BlockerDtor(b) ==
    LET s == blk[b].m_subject
        sw == std_swap(blk[b].m_observers, subject_m_observers[s])
    IN  /\ Running
        /\ blk[b].state = "alive"
        /\ subject_m_observers' =
               [subject_m_observers EXCEPT ![s] = sw.theirs]
        /\ blk' = [blk EXCEPT ![b] = Idle]
        /\ stack' = Touch(Dangle(Swapped(stack, s, b), s, b))
        /\ UNCHANGED <<ownerAlive, subjectAlive, owner_m_observers, hnd, ub,
                       crashed>>

\* ---- subject::notify -----------------------------------------------------
\* for( auto& o : m_observers ) o->notify( args... ): begin() and end() are
\* taken once, each iteration dereferences the iterator and runs the
\* callback.  Between two steps of a pass the callback of the handle invoked
\* last is running and may call anything.
InvokeUB(h) == IF hnd[h].state = "live" THEN {} ELSE {"freed_notify"}

NotifyBegin(s, args) ==
    LET q == subject_m_observers[s]
    IN  /\ Running
        /\ subjectAlive[s]
        /\ Len(stack) < MaxDepth
        /\ IF q = <<>>
           THEN UNCHANGED vars
           ELSE /\ ub' = ub \cup InvokeUB(q[1])
                /\ \/ /\ stack' = Append(stack, Frame(s, q, args))
                      /\ UNCHANGED <<ownerAlive, subjectAlive,
                                     owner_m_observers, subject_m_observers,
                                     hnd, blk, crashed>>
                   \/ Crash(InvokeUB(q[1]))

\* dereferencing the incremented iterator
ReadUB(f) ==
    IF f.loc = -1 THEN {"storage_uaf"}
    ELSE IF f.pos + 1 > FrameSize(f) THEN {"oob_read"}
    ELSE {}

\* the subject the running callback of pass f still has to notify: the
\* callback is a relay's lambda and has not made its call yet (0: none)
Pending(f) ==
    LET h == f.fired[f.pos]
    IN  IF hnd[h].state = "live" /\ ~f.inner THEN hnd[h].s2 ELSE 0

\* a relay whose lambda returns without notifying
RelayNothing(stk, t, args) == stk

\* the lambda of a relay: s2.notify( args... ), which starts a pass on s2
\* when s2 has observers
RelayNotify(stk, t, args) ==
    LET q == subject_m_observers[t]
    IN  IF q = <<>> THEN stk ELSE Append(stk, Frame(t, q, args))

\* A relay refers to s2 by reference: notifying a destroyed s2 is undefined.
\* A pass on s2 that is reached again from one of its own callbacks recurses
\* without end.
RelayUB(t) ==
    IF ~subjectAlive[t] THEN {"relay_uaf"}
    ELSE IF \E k \in DOMAIN stack : stack[k].s = t
              /\ subject_m_observers[t] # <<>>
         THEN {"stack_overflow"}
    ELSE {}

RelayCallUB(t) ==
    IF RelayUB(t) # {} THEN RelayUB(t)
    ELSE IF subject_m_observers[t] # <<>>
         THEN InvokeUB(subject_m_observers[t][1])
    ELSE {}

RelayCall ==
    LET n == Len(stack)
        f == stack[n]
        t == Pending(f)
    IN  /\ Running
        /\ n > 0
        /\ t # 0
        /\ ub' = ub \cup RelayCallUB(t)
        /\ \/ /\ stack' =
                     IF RelayCallUB(t) = {}
                     THEN RelayNotify([stack EXCEPT ![n].inner = TRUE],
                                      t, f.got[f.pos])
                     ELSE [stack EXCEPT ![n].inner = TRUE]
              /\ UNCHANGED <<ownerAlive, subjectAlive, owner_m_observers,
                             subject_m_observers, hnd, blk, crashed>>
           \/ Crash(RelayCallUB(t))

NotifyAdvance ==
    LET n == Len(stack)
        f == stack[n]
        h == f.raw[f.pos + 1]
    IN  /\ Running
        /\ n > 0
        /\ Pending(f) = 0
        /\ IF f.pos = f.end
           THEN /\ stack' = SubSeq(stack, 1, n - 1)
                /\ UNCHANGED <<ownerAlive, subjectAlive, owner_m_observers,
                               subject_m_observers, hnd, blk, ub, crashed>>
           ELSE /\ ub' = ub \cup ReadUB(f) \cup InvokeUB(h)
                /\ \/ /\ stack' = [stack EXCEPT ![n] =
                                      [f EXCEPT !.pos = f.pos + 1,
                                                !.fired = Append(f.fired, h),
                                                !.got = Append(f.got,
                                                    Received(h, f.args)),
                                                !.inner = FALSE]]
                      /\ UNCHANGED <<ownerAlive, subjectAlive,
                                     owner_m_observers, subject_m_observers,
                                     hnd, blk, crashed>>
                   \/ Crash(ReadUB(f) \cup InvokeUB(h))

\* ---- the program ---------------------------------------------------------
\* Spec: every call may come from the program or from a running callback.
Next ==
    \/ \E o \in Owners, s \in Subjects : Connect(o, s, NumArgs, 0)
    \/ \E o \in Owners, h \in Handles : Disconnect(o, h)
    \/ \E o \in Owners : DestroyOwner(o)
    \/ \E s \in Subjects : DestroySubject(s)
    \/ \E b \in Blockers, s \in Subjects : BlockerCtor(b, s)
    \/ \E b \in Blockers : BlockerDtor(b)
    \/ \E s \in Subjects : NotifyBegin(s, NoEvent)
    \/ NotifyAdvance

Spec == Init /\ [][Next]_vars

\* SpecCallbacks: the same program without subject_blocker.
NextCallbacks ==
    \/ \E o \in Owners, s \in Subjects : Connect(o, s, NumArgs, 0)
    \/ \E o \in Owners, h \in Handles : Disconnect(o, h)
    \/ \E o \in Owners : DestroyOwner(o)
    \/ \E s \in Subjects : DestroySubject(s)
    \/ \E s \in Subjects : NotifyBegin(s, NoEvent)
    \/ NotifyAdvance

SpecCallbacks == Init /\ [][NextCallbacks]_vars

\* SpecPlain: no subject_blocker, and callbacks that only observe; every
\* call comes from the program, between notify passes.
NextPlain ==
    \/ \E o \in Owners, s \in Subjects :
          stack = <<>> /\ Connect(o, s, NumArgs, 0)
    \/ \E o \in Owners, h \in Handles : stack = <<>> /\ Disconnect(o, h)
    \/ \E o \in Owners : stack = <<>> /\ DestroyOwner(o)
    \/ \E s \in Subjects : stack = <<>> /\ DestroySubject(s)
    \/ \E s \in Subjects : stack = <<>> /\ NotifyBegin(s, NoEvent)
    \/ NotifyAdvance

SpecPlain == Init /\ [][NextPlain]_vars

\* SpecForeign: SpecPlain, and disconnect may be called on any owner.
NextForeign ==
    \/ NextPlain
    \/ \E o \in Owners, h \in Handles :
          stack = <<>> /\ DisconnectForeign(o, h)

SpecForeign == Init /\ [][NextForeign]_vars

\* SpecNested: blockers are scoped objects, destroyed in reverse order of
\* construction, and nothing is connected to or disconnected from a subject
\* while a blocker on it is alive; every call comes from the program.
NextNested ==
    \/ \E o \in Owners, s \in Subjects :
          /\ stack = <<>>
          /\ BlockersOn(s) = {}
          /\ Connect(o, s, NumArgs, 0)
    \/ \E o \in Owners, h \in Handles :
          /\ stack = <<>>
          /\ BlockersOn(hnd[h].m_subject) = {}
          /\ Disconnect(o, h)
    \/ \E b \in Blockers, s \in Subjects : stack = <<>> /\ BlockerCtor(b, s)
    \/ \E b \in Blockers :
          stack = <<>> /\ InnermostBlocker(b) /\ BlockerDtor(b)
    \/ \E s \in Subjects : stack = <<>> /\ NotifyBegin(s, NoEvent)
    \/ NotifyAdvance

SpecNested == Init /\ [][NextNested]_vars

\* SpecScoped: blockers are scoped objects; the program connects and
\* disconnects also while a subject is blocked; every call comes from the
\* program.
NextScoped ==
    \/ \E o \in Owners, s \in Subjects :
          stack = <<>> /\ Connect(o, s, NumArgs, 0)
    \/ \E o \in Owners, h \in Handles : stack = <<>> /\ Disconnect(o, h)
    \/ \E o \in Owners : stack = <<>> /\ DestroyOwner(o)
    \/ \E b \in Blockers, s \in Subjects : stack = <<>> /\ BlockerCtor(b, s)
    \/ \E b \in Blockers :
          stack = <<>> /\ InnermostBlocker(b) /\ BlockerDtor(b)
    \/ \E s \in Subjects : stack = <<>> /\ NotifyBegin(s, NoEvent)
    \/ NotifyAdvance

SpecScoped == Init /\ [][NextScoped]_vars

\* SpecRelay: no subject_blocker; the program connects functions of every
\* arity and relays, and publishes every event; the callbacks of functions
\* only observe, the lambda of a relay notifies its subject.
NextRelay ==
    \/ \E o \in Owners, s \in Subjects, n \in 0..NumArgs :
          stack = <<>> /\ Connect(o, s, n, 0)
    \/ \E o \in Owners, s \in Subjects, t \in Subjects :
          stack = <<>> /\ Connect(o, s, NumArgs, t)
    \/ \E o \in Owners, h \in Handles : stack = <<>> /\ Disconnect(o, h)
    \/ \E o \in Owners : stack = <<>> /\ DestroyOwner(o)
    \/ \E s \in Subjects : stack = <<>> /\ DestroySubject(s)
    \/ \E s \in Subjects, e \in Events : stack = <<>> /\ NotifyBegin(s, e)
    \/ RelayCall
    \/ NotifyAdvance

SpecRelay == Init /\ [][NextRelay]_vars

\* SpecArity: the argument adapter alone.  One owner connects functions of
\* every arity to one subject, which publishes every event.
NextArity ==
    \/ \E n \in 0..NumArgs : stack = <<>> /\ Connect(1, 1, n, 0)
    \/ \E e \in Events : stack = <<>> /\ NotifyBegin(1, e)
    \/ NotifyAdvance

SpecArity == Init /\ [][NextArity]_vars

\* ---- well-formedness of the model's state --------------------------------
TypeOK ==
    /\ ownerAlive \in [Owners -> BOOLEAN]
    /\ subjectAlive \in [Subjects -> BOOLEAN]
    /\ owner_m_observers \in [Owners -> SUBSET Handles]
    /\ \A s \in Subjects : Range(subject_m_observers[s]) \subseteq Born
    /\ \A h \in Handles \ Born : hnd[h] = NoHandle
    /\ \A i \in DOMAIN stack :
          /\ stack[i].pos \in 1..stack[i].end
          /\ stack[i].end <= Len(stack[i].raw)
          /\ Len(stack[i].fired) = stack[i].pos
          /\ stack[i].loc # -1 => FrameSize(stack[i]) <= Len(stack[i].raw)
    /\ crashed \in BOOLEAN

\* ==== claims ===============================================================
AllOwnersGone == \A o \in Owners : ~ownerAlive[o]
AllSubjectsGone == \A s \in Subjects : ~subjectAlive[s]
NobodyGone == (\A o \in Owners : ownerAlive[o])
              /\ (\A s \in Subjects : subjectAlive[s])

\* C1 (SpecPlain: no blocker, no relay, calls made by the program).
\* Destruction-order independence: whatever connects, notifies and
\* disconnects came before, destroying owners and subjects in any order
\* never routes remove_from_subject to a destroyed subject or
\* remove_from_owner to a destroyed handle or owner, never erases (destroys)
\* a handle a second time, and leaves no handle alive once both its owner and
\* its subject are gone.
C1_DestructionOrderIndependence ==
    /\ ub \cap {"subject_uaf", "handle_uaf", "erase_absent"} = {}
    /\ \A h \in Live :
          ownerAlive[hnd[h].m_owner] \/ subjectAlive[hnd[h].m_subject]

\* every owner and subject was destroyed, after all handles had been
\* connected, and every handle is destroyed
C1_Witness ==
    /\ AllOwnersGone /\ AllSubjectsGone
    /\ Born = Handles /\ Freed = Handles
    /\ ub = {} /\ ~crashed

\* C2 (Spec).  Subject invariant: the dispatch sequence of a live subject
\* holds only handles that a live owner still holds in its set.
C2_SubjectInvariant ==
    \A s \in Subjects :
        subjectAlive[s] =>
            \A h \in Range(subject_m_observers[s]) :
                \E o \in Owners : ownerAlive[o] /\ h \in owner_m_observers[o]

\* C3 (Spec).  Owner invariant: every handle in a live owner's set refers to
\* a subject that is still alive.
C3_OwnerInvariant ==
    \A o \in Owners :
        ownerAlive[o] =>
            \A h \in owner_m_observers[o] : subjectAlive[hnd[h].m_subject]

\* C4 (SpecCallbacks).  A notify pass never invokes a freed handle: while
\* the subject of a pass is alive and its vector was neither reallocated nor
\* swapped away, whatever the callbacks of the pass disconnected or
\* destroyed, each further iteration reads a position before the current
\* end of the dispatch sequence and invokes a handle that is in the sequence
\* and held by a live owner.
C4_NotifyNeverInvokesFreed ==
    [][\A k \in DOMAIN stack :
          (/\ k \in DOMAIN stack'
           /\ stack'[k].pos = stack[k].pos + 1
           /\ subjectAlive[stack[k].s]
           /\ stack[k].loc = 0)
          => LET h == stack'[k].fired[stack'[k].pos]
                 q == subject_m_observers[stack[k].s]
             IN  /\ stack'[k].pos <= Len(q)
                 /\ h \in Range(q)
                 /\ \E o \in Owners :
                       ownerAlive[o] /\ h \in owner_m_observers[o]]_vars

\* the live handles connected to subject s, oldest first (handles are
\* numbered in the order of their connect calls)
ConnectedTo(s) == {h \in Live : hnd[h].m_subject = s}

RECURSIVE Ascending(_)
Ascending(S) ==
    IF S = {} THEN <<>>
    ELSE LET m == CHOOSE x \in S : \A y \in S : x <= y
         IN  <<m>> \o Ascending(S \ {m})

\* C5 (SpecPlain: no blocker, calls made by the program between passes).
\* Order preservation: after any connects and disconnects, by one owner or
\* several, the dispatch sequence of a subject is exactly the handles still
\* connected to it in connection order, and a notify pass invokes exactly
\* those, each once, oldest first.
C5_OrderPreservation ==
    /\ \A s \in Subjects :
          subjectAlive[s] =>
              subject_m_observers[s] = Ascending(ConnectedTo(s))
    /\ \A k \in DOMAIN stack :
          /\ stack[k].end = Cardinality(ConnectedTo(stack[k].s))
          /\ stack[k].fired =
                 SubSeq(Ascending(ConnectedTo(stack[k].s)), 1, stack[k].pos)

\* a pass has just invoked its last handle: the first and the third of three
\* handles connected by different owners, after the second was disconnected
C5_Witness ==
    /\ NobodyGone
    /\ stack # <<>>
    /\ stack[1].pos = stack[1].end
    /\ stack[1].fired = <<1, 3>>
    /\ 2 \in Freed
    /\ hnd[1].m_owner # hnd[3].m_owner
    /\ ub = {}

\* connect has just returned h: h is the last element of its subject's
\* dispatch sequence and a member of its owner's set
ConnectPost ==
    \A h \in Handles :
        (hnd[h].state = "unborn" /\ hnd'[h].state = "live")
        => LET q == subject_m_observers'[hnd'[h].m_subject]
           IN  /\ q # <<>>
               /\ q[Len(q)] = h
               /\ h \in owner_m_observers'[hnd'[h].m_owner]

\* a pass whose callbacks changed no registration invokes the dispatch
\* sequence of its subject, in order, each element once
CleanPassInvokesAll ==
    \A k \in DOMAIN stack :
        ~stack[k].dirty
        => /\ stack[k].end = Len(subject_m_observers[stack[k].s])
           /\ stack[k].fired =
                  SubSeq(subject_m_observers[stack[k].s], 1, stack[k].pos)

\* a handle leaves the dispatch sequence of a live subject only when it is
\* destroyed (disconnect, ~observer_owner) or the subject is
LeavesOnlyByOriginal ==
    \A s \in Subjects :
        \A h \in Range(subject_m_observers[s]) \ Range(subject_m_observers'[s]) :
            hnd'[h].state = "freed" \/ ~subjectAlive'[s]

\* ... or when a subject_blocker on the subject is constructed or destroyed
LeavesOnlyBy ==
    \A s \in Subjects :
        \A h \in Range(subject_m_observers[s]) \ Range(subject_m_observers'[s]) :
            \/ hnd'[h].state = "freed"
            \/ ~subjectAlive'[s]
            \/ BlockersOn(s) # BlockersOn(s)'

C7_DisconnectEffect ==
    NobodyGone =>
        /\ \A h \in Freed :
              /\ \A s \in Subjects : h \notin Range(subject_m_observers[s])
              /\ \A o \in Owners : h \notin owner_m_observers[o]
        /\ ub \cap {"freed_notify", "erase_absent"} = {}

Without(q, h) == SelectSeq(q, LAMBDA x : x # h)

\* C8 (Spec).  Disconnect removes exactly one: a step that destroys a handle
\* h while every owner and subject stays (a disconnect) takes h, and nothing
\* else, out of the dispatch sequences and the owners' sets, keeps the order
\* of the others, and changes no other handle and no blocker; the handles
\* left in a dispatch sequence are what a notify invokes.
C8_DisconnectRemovesExactlyOne ==
    /\ []CleanPassInvokesAll
    /\ [][\A h \in Handles :
             (/\ hnd[h].state = "live" /\ hnd'[h].state = "freed"
              /\ ownerAlive' = ownerAlive /\ subjectAlive' = subjectAlive)
             => /\ \A s \in Subjects :
                      subject_m_observers'[s] =
                          Without(subject_m_observers[s], h)
                /\ \A o \in Owners :
                      owner_m_observers'[o] = owner_m_observers[o] \ {h}
                /\ \A g \in Handles \ {h} : hnd'[g] = hnd[g]
                /\ blk' = blk]_vars

\* of two handles the first was disconnected, and a later pass without
\* interference has invoked the other
C8_Witness ==
    /\ NobodyGone
    /\ Born = {1, 2} /\ Freed = {1}
    /\ \A b \in Blockers : blk[b].state = "idle"
    /\ stack # <<>>
    /\ ~stack[1].dirty
    /\ stack[1].s = hnd[2].m_subject
    /\ stack[1].pos = stack[1].end
    /\ stack[1].fired = <<2>>
    /\ ub = {}

\* C9 (Spec).  Blocker suspension invariant: while a subject_blocker on a
\* live subject is alive, the subject's dispatch sequence is empty and no
\* notify pass iterates it, whatever was connected or disconnected meanwhile.
C9_BlockerSuspends ==
    \A s \in Subjects :
        (subjectAlive[s] /\ BlockersOn(s) # {})
        => /\ subject_m_observers[s] = <<>>
           /\ \A k \in DOMAIN stack : ~Aliases(stack[k], s, 0)

\* C10 (Spec).  Blocker round-trip: the step that destroys a subject_blocker
\* leaves its subject with exactly the dispatch sequence the subject had when
\* that blocker was constructed, whether or not handles were connected to or
\* disconnected from the subject in between.
C10_BlockerRoundTrip ==
    [][\A b \in Blockers :
          (blk[b].state = "alive" /\ blk'[b].state = "idle")
          => subject_m_observers'[blk[b].m_subject] = blk[b].snap]_vars

\* a blocker is gone again, its subject has its earlier, non-empty sequence
\* back, and a handle connected to the subject during the block is not in it
C10_Witness ==
    \E s \in Subjects :
        /\ subjectAlive[s]
        /\ BlockersOn(s) = {}
        /\ subject_m_observers[s] # <<>>
        /\ \E h \in ConnectedTo(s) : h \notin Range(subject_m_observers[s])
        /\ ub = {}

\* C11 (Spec).  Blocker frame: a step that constructs or destroys a
\* subject_blocker changes no owner's set and no handle, destroys no owner
\* and no subject, leaves every other subject's dispatch sequence unchanged,
\* and exchanges the bound subject's dispatch sequence with the sequence the
\* blocker holds.
C11_BlockerFrame ==
    [][\A b \in Blockers :
          blk'[b].state # blk[b].state
          => LET s == IF blk[b].state = "alive" THEN blk[b].m_subject
                      ELSE blk'[b].m_subject
             IN  /\ owner_m_observers' = owner_m_observers
                 /\ hnd' = hnd
                 /\ ownerAlive' = ownerAlive
                 /\ subjectAlive' = subjectAlive
                 /\ \A x \in Subjects \ {s} :
                       subject_m_observers'[x] = subject_m_observers[x]
                 /\ subject_m_observers'[s] = blk[b].m_observers
                 /\ blk[b].state = "idle"
                       => blk'[b].m_observers = subject_m_observers[s]]_vars

\* a blocker was destroyed after a connect to its subject during the block:
\* the handle is alive and owned, and in no dispatch sequence
C11_Witness ==
    /\ NobodyGone
    /\ Freed = {}
    /\ \A b \in Blockers : blk[b].state = "idle"
    /\ \E h \in Live :
          /\ h \in owner_m_observers[hnd[h].m_owner]
          /\ \A s \in Subjects : h \notin Range(subject_m_observers[s])
    /\ \E s \in Subjects : subject_m_observers[s] # <<>>
    /\ ub = {}

\* the number of times handle h occurs in sequence q
Occurrences(q, h) == Cardinality({i \in 1..Len(q) : q[i] = h})

\* the occurrences of h in subject s's dispatch sequence and in the
\* sequences the blockers on s hold for it
RECURSIVE HeldOccurrences(_, _, _)
HeldOccurrences(B, s, h) ==
    IF B = {} THEN Occurrences(subject_m_observers[s], h)
    ELSE LET b == CHOOSE x \in B : TRUE
         IN  Occurrences(blk[b].m_observers, h)
             + HeldOccurrences(B \ {b}, s, h)

RECURSIVE Sum(_, _)
Sum(f, S) ==
    IF S = {} THEN 0
    ELSE LET x == CHOOSE y \in S : TRUE IN f[x] + Sum(f, S \ {x})

AtMostOneRegistration ==
    \A h \in Handles :
        /\ Cardinality({o \in Owners : h \in owner_m_observers[o]}) <= 1
        /\ Sum([s \in Subjects |-> HeldOccurrences(BlockersOn(s), s, h)],
               Subjects) <= 1

\* C12 (Spec).  Handle uniqueness: every handle is in at most one owner's
\* set and occurs at most once in at most one subject's dispatch sequence
\* (a blocker's saved sequence counted as its subject's), and no notify
\* invokes a handle that disconnect or the destruction of its owner or
\* subject has released.
C12_HandleUniqueness ==
    /\ AtMostOneRegistration
    /\ "freed_notify" \notin ub

\* a nested pass runs inside the callback of the relay that the pass below
\* it has invoked last: it is a pass on the relay's subject, for the event
\* of the pass below, and has invoked, in order, the front of that subject's
\* dispatch sequence, each function with the leading arguments it takes
NestedInRelay ==
    \A k \in DOMAIN stack :
        k > 1 =>
            LET f == stack[k]
                g == stack[k - 1]
                r == g.fired[g.pos]
            IN  /\ hnd[r].state = "live"
                /\ hnd[r].s2 = f.s
                /\ g.inner
                /\ f.args = g.args
                /\ f.fired = SubSeq(subject_m_observers[f.s], 1, f.pos)
                /\ \A i \in 1..f.pos :
                      f.got[i] = SubSeq(f.args, 1, hnd[f.fired[i]].arity)

\* the steps of a pass around a relay: the lambda starts one pass on its
\* subject when that has observers, the pass returns when it has invoked the
\* whole dispatch sequence, and the pass below goes on only after the
\* lambda made its call
RelaySteps ==
    LET n == Len(stack)
    IN  (n > 0 /\ stack' # stack /\ ub' = {}) =>
            LET f == stack[n]
                r == f.fired[f.pos]
                t == hnd[r].s2
            IN  /\ (t # 0 /\ ~f.inner) =>
                      /\ Len(stack') = n + (IF subject_m_observers[t] = <<>>
                                            THEN 0 ELSE 1)
                      /\ stack'[n] = [f EXCEPT !.inner = TRUE]
                      /\ Len(stack') > n =>
                            /\ stack'[n + 1].s = t
                            /\ stack'[n + 1].pos = 1
                /\ Len(stack') > n => (t # 0 /\ ~f.inner)
                /\ Len(stack') < n =>
                      f.fired = subject_m_observers[f.s]

\* C13 (SpecRelay: no blocker, callbacks of functions only observe).  Relay
\* propagation: with a relay from A to B connected, B alive and B's passes
\* not leading back to B, every pass on A that reaches the relay runs, inside
\* the relay's callback and before A's pass goes on, exactly one pass on B,
\* which invokes every handle in B's dispatch sequence once, in order, with
\* the arguments of A's event.
C13_RelayPropagation == []NestedInRelay /\ [][RelaySteps]_vars

\* a pass on A for the event (1, 0) has invoked a relay, and the pass on the
\* relay's subject inside it has invoked that subject's two handles, both
\* functions of all arguments
C13_Witness ==
    /\ Len(stack) = 2
    /\ stack[1].args = <<1, 0>>
    /\ hnd[1].s2 = stack[2].s
    /\ stack[1].fired = <<1>>
    /\ stack[2].pos = stack[2].end
    /\ stack[2].fired = <<2, 3>>
    /\ stack[2].got = <<stack[1].args, stack[1].args>>
    /\ ub = {}

\* C14 (SpecRelay).  Destruction safety for relays: no notify reaches, through
\* a relay, a subject that has been destroyed.
C14_RelayDestructionSafe == "relay_uaf" \notin ub

\* C15 (SpecArity).  Arity truncation: a notify publishing (a1..aM) calls
\* every connected function of arity N, 0 <= N <= M, with exactly (a1..aN),
\* in order: nothing for N = 0, all of them for N = M.
C15_ArityTruncation ==
    \A k \in DOMAIN stack :
        \A i \in 1..stack[k].pos :
            LET N == hnd[stack[k].fired[i]].arity
                a == stack[k].args
                g == stack[k].got[i]
            IN  /\ N \in 0..Len(a)
                /\ Len(g) = N
                /\ \A j \in 1..N : g[j] = a[j]
                /\ N = 0 => g = <<>>
                /\ N = Len(a) => g = a

\* a pass for the event (0, 1, ...) has invoked functions of arity 1, 0 and
\* NumArgs: they got (0), () and the whole event
C15_Witness ==
    /\ Len(stack) = 1
    /\ stack[1].args[1] = 0
    /\ stack[1].args[2] = 1
    /\ stack[1].pos = 3
    /\ hnd[1].arity = 1 /\ hnd[2].arity = 0 /\ hnd[3].arity = NumArgs
    /\ stack[1].fired = <<1, 2, 3>>
    /\ stack[1].got = <<<<0>>, <<>>, stack[1].args>>
    /\ ub = {}

\* C16 (SpecCallbacks).  Notify snapshot: as long as nothing was ever
\* removed (the only registration changes are connects, also by callbacks of
\* a running pass, so the sequence a pass started with is the front of the
\* current one), a pass reads only valid elements and invokes exactly the
\* sequence it started with; the handles connected meanwhile lie behind its
\* end, in the dispatch sequence the next notify iterates.
C16_NotifySnapshot ==
    (NobodyGone /\ Freed = {}) =>
        /\ ub \cap {"storage_uaf", "oob_read", "freed_notify"} = {}
        /\ \A k \in DOMAIN stack :
              LET f == stack[k]
                  q == subject_m_observers[f.s]
              IN  /\ f.end <= Len(q)
                  /\ f.fired = SubSeq(q, 1, f.pos)

\* C17 (SpecForeign).  disconnect routes the release to the handle's own
\* owner: whichever owner object disconnect(h) is called on, no erase is
\* attempted on a set that does not contain h, and h leaves its subject's
\* dispatch sequence and its own owner's set together (a live handle held by
\* a live owner whose subject is alive is in that subject's sequence).
C17_DisconnectRoutesToOwner ==
    /\ "erase_end" \notin ub
    /\ \A h \in Live :
          (ownerAlive[hnd[h].m_owner] /\ subjectAlive[hnd[h].m_subject])
          => h \in Range(subject_m_observers[hnd[h].m_subject])

\* C18 (SpecNested).  Nested blockers: with blockers destroyed in reverse
\* order of construction and no connect or disconnect on a subject while it
\* is blocked, the subject's dispatch sequence is empty, and no pass runs on
\* it, as long as any blocker on it is alive, and is the sequence from before
\* the first blocker (the handles connected to it, in connection order) when
\* none is.
C18_NestedBlockers ==
    /\ \A s \in Subjects :
          subject_m_observers[s] =
              IF BlockersOn(s) # {} THEN <<>>
              ELSE Ascending(ConnectedTo(s))
    /\ \A k \in DOMAIN stack : BlockersOn(stack[k].s) = {}

\* two blockers are alive on a subject with two handles: the first holds the
\* sequence, the second an empty one
C18_Witness ==
    /\ blk[1].state = "alive" /\ blk[2].state = "alive"
    /\ blk[1].m_subject = blk[2].m_subject
    /\ Len(blk[1].m_observers) = 2
    /\ blk[2].m_observers = <<>>
    /\ Cardinality(ConnectedTo(blk[1].m_subject)) = 2
    /\ ub = {}

\* subject::remove_observer( h ) applied to the current state for a handle
\* that is not in the dispatch sequence changes nothing
AbsentRemovalIsNoOp ==
    \A s \in Subjects, h \in Handles :
        h \notin Range(subject_m_observers[s])
        => subject_remove_observer(Mem, s, h) = Mem

\* a step that releases a handle h whose live subject does not have it in
\* its dispatch sequence takes out of that sequence only the handles released
\* in the same step (none but h in a disconnect)
AbsentRemovalStep ==
    \A h \in Handles :
        LET s == hnd[h].m_subject
        IN  (/\ hnd[h].state = "live" /\ hnd'[h].state = "freed"
             /\ subjectAlive[s] /\ subjectAlive'[s]
             /\ h \notin Range(subject_m_observers[s]))
            => subject_m_observers'[s] =
                   SelectSeq(subject_m_observers[s],
                             LAMBDA x : hnd'[x] = hnd[x])

\* C19 (SpecScoped).  Subject-side removal of an absent handle is a no-op:
\* remove_observer(h) for a handle that is not in the dispatch sequence, for
\* example because a blocker holds the sequence, leaves the dispatch sequence
\* as it is and removes no other handle.
C19_AbsentRemovalNoOp == []AbsentRemovalIsNoOp /\ [][AbsentRemovalStep]_vars

\* a handle was disconnected while a blocker held it, and the handle
\* connected to the subject during the block is still in the dispatch
\* sequence
C19_Witness ==
    /\ NobodyGone
    /\ \E b \in Blockers :
          /\ blk[b].state = "alive"
          /\ Range(blk[b].m_observers) \cap Freed # {}
          /\ subject_m_observers[blk[b].m_subject] # <<>>
          /\ Range(subject_m_observers[blk[b].m_subject]) \subseteq Live
    /\ ub = {}

====
